---- MODULE Spec2Model ----
(***************************************************************************)
(* A model of eolic's remote dispatch subsystem (src/eolic/remote.py):     *)
(* EventRemoteTargetHandler (register, clear, emit, wait_for_all), the     *)
(* dispatcher factory, the dispatchers and the ThreadPoolExecutor that     *)
(* runs the dispatches.                                                    *)
(***************************************************************************)
EXTENDS Integers, Sequences, FiniteSets, TLC

(***************************************************************************)
(* Bounds of the model.                                                    *)
(***************************************************************************)
\* the registry holds at most this many targets
MaxTargets == 2
\* at most this many dispatches are submitted in one behaviour (all executors)
MaxTasks == 2
\* the same, where the executor is driven beyond its capacity
MaxPoolTasks == 11

(***************************************************************************)
(* The objects of the program.                                             *)
(***************************************************************************)
\* two EventRemoteTargetHandler instances
Handlers == {"H1", "H2"}
\* the caller threads; under Spec only MainThread calls the handlers
Threads == {"main", "other"}
MainThread == "main"
\* event names a caller emits
Events == {"e1", "e2"}

(***************************************************************************)
(* Python values, tagged with their type.                                  *)
(***************************************************************************)
PyStr(s) == [py |-> "str", v |-> s]
PyInt(s) == [py |-> "int", v |-> s]
PyList(s) == [py |-> "list", v |-> s]
PyDict(d) == [py |-> "dict", v |-> d]
PyNone == [py |-> "NoneType", v |-> "None"]
\* dict.get(key): the value, or None when the key is missing
DictGet(d, key) == IF key \in DOMAIN d THEN d[key] ELSE PyNone
\* truth value of a Python value, as `if x:` takes it
Truthy(x) == x.py # "NoneType" /\ ~(x.py = "str" /\ x.v = "")
\* an Optional field: {} is None, {x} is the value x
None == {}
Some(x) == {x}

\* the member names of the enumeration EventRemoteTargetType (eolic/model.py)
EventRemoteTargetType == {"url", "celery"}
\* the defaults of EventRemoteCeleryTarget's optional fields (eolic/model.py)
DefaultQueueName == "default_queue"
DefaultFunctionName == "default_function"

(***************************************************************************)
(* EventRemoteTargetHandler._parse_target                                  *)
(***************************************************************************)
Raised(exc) == [ok |-> FALSE, exc |-> exc]
Returned(x) == [ok |-> TRUE, value |-> x]

\* target.get("events") as the target's Optional events field
EventsField(d) ==
    IF DictGet(d, "events").py = "list" THEN Some(d["events"].v) ELSE None

EventRemoteURLTarget(d) ==
    [class |-> "EventRemoteURLTarget",
     type |-> "url",
     address |-> d["address"].v,
     headers |-> IF "headers" \in DOMAIN d THEN d["headers"].v ELSE {},
     events |-> EventsField(d)]

EventRemoteCeleryTarget(d) ==
    [class |-> "EventRemoteCeleryTarget",
     type |-> "celery",
     address |-> DictGet(d, "address").v,
     events |-> EventsField(d),
     queue_name |-> IF Truthy(DictGet(d, "queue_name"))
                    THEN d["queue_name"].v ELSE DefaultQueueName,
     function_name |-> IF Truthy(DictGet(d, "function_name"))
                       THEN d["function_name"].v ELSE DefaultFunctionName]

EventRemoteTarget(d) ==
    [class |-> "EventRemoteTarget",
     type |-> d["type"].v,
     events |-> EventsField(d)]

\* ParseDict, with a kind that is no member of the enumeration taken as a
\* generic target instead of raising
ParseDictLenient(d) ==
    LET target_type == DictGet(d, "type") IN
    IF target_type.py # "str" THEN Raised("TypeError")
    ELSE IF target_type.v = "url"
         THEN IF "address" \in DOMAIN d
              THEN Returned(EventRemoteURLTarget(d))
              ELSE Raised("KeyError")
    ELSE IF target_type.v = "celery" THEN Returned(EventRemoteCeleryTarget(d))
    ELSE Returned(EventRemoteTarget(d))

ParseDict(d) ==
    LET target_type == DictGet(d, "type") IN
    IF target_type.py # "str" THEN Raised("TypeError")
    ELSE IF target_type.v \notin EventRemoteTargetType THEN Raised("KeyError")
    ELSE IF target_type.v = "url"
         THEN IF "address" \in DOMAIN d
              THEN Returned(EventRemoteURLTarget(d))
              ELSE Raised("KeyError")
    ELSE IF target_type.v = "celery" THEN Returned(EventRemoteCeleryTarget(d))
    ELSE Returned(EventRemoteTarget(d))

\* ParseTarget, a string taken as the address of an HTTP target that filters
\* on no event at all
ParseTargetStringMuted(target) ==
    LET t == IF target.py = "str"
             THEN PyDict([type |-> PyStr("url"), address |-> target,
                          events |-> PyList({})])
             ELSE target
    IN IF t.py # "dict" THEN Raised("TypeError") ELSE ParseDict(t.v)

ParseTarget(target) ==
    LET t == IF target.py = "str"
             THEN PyDict([type |-> PyStr("url"), address |-> target])
             ELSE target
    IN IF t.py # "dict" THEN Raised("TypeError") ELSE ParseDict(t.v)

\* malformed registration input, as the specification lists it: neither a
\* string nor a mapping; a descriptor whose kind is missing, is no string or
\* is no recognized kind; an HTTP descriptor without address
Malformed(raw) ==
    \/ raw.py \notin {"str", "dict"}
    \/ /\ raw.py = "dict"
       /\ \/ "type" \notin DOMAIN raw.v
          \/ raw.v["type"].py # "str"
          \/ raw.v["type"].v \notin {"url", "celery"}
          \/ raw.v["type"].v = "url" /\ "address" \notin DOMAIN raw.v

\* the registration inputs a caller passes to register
RawTargets ==
    { PyStr("http://a.test"),
      PyDict([type |-> PyStr("url"), address |-> PyStr("http://b.test"),
              events |-> PyList({"e1"})]),
      PyDict([type |-> PyStr("celery"), address |-> PyStr("amqp://broker")]),
      PyInt("42"),
      PyDict([address |-> PyStr("http://a.test")]),
      PyDict([type |-> PyInt("7"), address |-> PyStr("http://a.test")]),
      PyDict([type |-> PyStr("unknown-kind"), address |-> PyStr("http://a.test")]),
      PyDict([type |-> PyStr("url")]) }

(***************************************************************************)
(* The state.                                                              *)
(***************************************************************************)
VARIABLES
    targets,    \* EventRemoteTargetHandler.targets, the class attribute
    tasks,      \* per handler, the futures of the work items its executor got
    futures,    \* per handler, self.futures: indices into tasks[h]
    pc,         \* per thread, where it is inside wait_for_all
    last,       \* per thread, the call it made last and how it ended
    owners,     \* history: the handler whose register added each target
    cleared,    \* history: the handlers cleared and not registered on since
    work,       \* the calls of dispatch bound in the work items of PoolHandler
    sent        \* per work item of PoolHandler, the calls its transport received

vars == <<targets, tasks, futures, pc, last, owners, cleared, work, sent>>
\* the variables that only the specifications which follow them change
history == <<owners, cleared, work, sent>>

Idle == [at |-> "idle", h |-> "H1", i |-> 0]

\* the record of a call: its arguments (event for emit; for register, whether
\* the input was malformed), the state it started from (snap: the
\* registry for register, self.futures for wait_for_all; n0: the number of
\* work items of the executor), how it ended (status, exc, and err: the work
\* item whose exception wait_for_all re-raised) and what it submitted (subs)
Call(op, h, event, malformed, status, exc, snap, n0, subs) ==
    [op |-> op, h |-> h, event |-> event, malformed |-> malformed, status |-> status,
     exc |-> exc, err |-> 0, snap |-> snap, n0 |-> n0, subs |-> subs]

NoCall == Call("none", "H1", "e1", FALSE, "returned", "", <<>>, 0, <<>>)

Init ==
    /\ targets = <<>>
    /\ tasks = [h \in Handlers |-> <<>>]
    /\ futures = [h \in Handlers |-> <<>>]
    /\ pc = [t \in Threads |-> Idle]
    /\ last = [t \in Threads |-> NoCall]
    /\ owners = <<>>
    /\ cleared = {}
    /\ work = <<>>
    /\ sent = <<>>

(***************************************************************************)
(* Helpers on sequences and on the executor's work items.                  *)
(***************************************************************************)
Range(s) == {s[i] : i \in DOMAIN s}
Min(S) == CHOOSE x \in S : \A y \in S : x <= y

\* ThreadPoolExecutor(max_workers=10)
max_workers == 10

Completed(task) == task.st \in {"RESULT", "EXCEPTION"}
PendingIds(h) == {i \in DOMAIN tasks[h] : tasks[h][i].st = "PENDING"}
RunningIds(h) == {i \in DOMAIN tasks[h] : tasks[h][i].st = "RUNNING"}
\* the number of dispatches submitted so far, over all executors
RECURSIVE TotalTasks(_)
TotalTasks(hs) ==
    IF hs = {} THEN 0
    ELSE LET h == CHOOSE x \in hs : TRUE
         IN Len(tasks[h]) + TotalTasks(hs \ {h})

(***************************************************************************)
(* EventRemoteDispatcherFactory.create and the dispatchers' constructors.  *)
(***************************************************************************)
EventRemoteURLDispatcher(target) ==
    Returned([class |-> "EventRemoteURLDispatcher", target |-> target])

\* celery_installed: what is_module_installed("celery") answers at this call
EventRemoteCeleryDispatcher(target, celery_installed) ==
    IF ~celery_installed THEN Raised("Exception")
    ELSE Returned([class |-> "EventRemoteCeleryDispatcher", target |-> target])

Create(target, celery_installed) ==
    IF target.class = "EventRemoteURLTarget" THEN EventRemoteURLDispatcher(target)
    ELSE IF target.class = "EventRemoteCeleryTarget"
         THEN EventRemoteCeleryDispatcher(target, celery_installed)
    ELSE Raised("NotImplementedError")

(***************************************************************************)
(* EventRemoteTargetHandler.register, clear, emit                          *)
(***************************************************************************)
Register(t, h, raw) ==
    /\ pc[t].at = "idle"
    /\ LET r == ParseTarget(raw) IN
       /\ targets' = IF r.ok THEN Append(targets, r.value) ELSE targets
       /\ last' = [last EXCEPT ![t] =
              Call("register", h, "e1", Malformed(raw), IF r.ok THEN "returned" ELSE "raised",
                   IF r.ok THEN "" ELSE r.exc, targets, 0, <<>>)]
    /\ UNCHANGED <<tasks, futures, pc>>

\* Clear, cancelling the work items of the handles it drops
ClearCancelling(t, h) ==
    /\ pc[t].at = "idle"
    /\ targets' = <<>>
    /\ futures' = [futures EXCEPT ![h] = <<>>]
    /\ tasks' = [tasks EXCEPT ![h] =
           [id \in DOMAIN @ |->
               IF id \in Range(futures[h]) /\ @[id].st = "PENDING"
               THEN [st |-> "CANCELLED"] ELSE @[id]]]
    /\ last' = [last EXCEPT ![t] =
           Call("clear", h, "e1", FALSE, "returned", "", <<>>, 0, <<>>)]
    /\ UNCHANGED pc

Clear(t, h) ==
    /\ pc[t].at = "idle"
    /\ targets' = <<>>
    /\ futures' = [futures EXCEPT ![h] = <<>>]
    /\ last' = [last EXCEPT ![t] =
           Call("clear", h, "e1", FALSE, "returned", "", <<>>, 0, <<>>)]
    /\ UNCHANGED <<tasks, pc>>

\* the filter of emit's loop: target.events is None or event in target.events
Matches(target, event) ==
    target.events = None \/ \E s \in target.events : event \in s

\* emit's loop from the i-th target on: the dispatches it submits, in order
\* (dispatcher: the class of the dispatcher whose dispatch is submitted; entry:
\* the registry entry it was created for), and the exception that ends the
\* loop ("" when it runs to its end)
RECURSIVE EmitLoop(_, _, _, _)
EmitLoop(i, event, celery_installed, acc) ==
    IF i > Len(targets) THEN [subs |-> acc, exc |-> ""]
    ELSE IF Matches(targets[i], event)
         THEN LET dispatcher == Create(targets[i], celery_installed) IN
              IF dispatcher.ok
              THEN EmitLoop(i + 1, event, celery_installed,
                       Append(acc, [dispatcher |-> dispatcher.value.class,
                                    event |-> event, entry |-> i]))
              ELSE [subs |-> acc, exc |-> dispatcher.exc]
         ELSE EmitLoop(i + 1, event, celery_installed, acc)

\* SubmitAccepts, with submit waiting for a free worker
SubmitAcceptsWhenFree(h, n) ==
    Cardinality(PendingIds(h) \cup RunningIds(h)) + n <= max_workers

\* executor.submit takes n more work items whatever the executor is doing:
\* its work queue is unbounded
SubmitAccepts(h, n) == TRUE

\* Emit, the future of the last dispatch submitted not retained
EmitDroppingLast(t, h, event, celery_installed) ==
    /\ pc[t].at = "idle"
    /\ LET r == EmitLoop(1, event, celery_installed, <<>>)
           n == Len(tasks[h])
       IN /\ tasks' = [tasks EXCEPT ![h] =
                 @ \o [k \in 1..Len(r.subs) |-> [st |-> "PENDING"]]]
          /\ futures' = [futures EXCEPT ![h] =
                 @ \o [k \in 1..(Len(r.subs) - 1) |-> n + k]]
          /\ last' = [last EXCEPT ![t] =
                 Call("emit", h, event, FALSE,
                      IF r.exc = "" THEN "returned" ELSE "raised",
                      r.exc, <<>>, n, r.subs)]
    /\ UNCHANGED <<targets, pc>>

Emit(t, h, event, celery_installed) ==
    /\ pc[t].at = "idle"
    /\ LET r == EmitLoop(1, event, celery_installed, <<>>)
           n == Len(tasks[h])
       IN /\ SubmitAccepts(h, Len(r.subs))
          /\ tasks' = [tasks EXCEPT ![h] =
                 @ \o [k \in 1..Len(r.subs) |-> [st |-> "PENDING"]]]
          /\ futures' = [futures EXCEPT ![h] =
                 @ \o [k \in 1..Len(r.subs) |-> n + k]]
          /\ last' = [last EXCEPT ![t] =
                 Call("emit", h, event, FALSE,
                      IF r.exc = "" THEN "returned" ELSE "raised",
                      r.exc, <<>>, n, r.subs)]
    /\ UNCHANGED <<targets, pc>>

(***************************************************************************)
(* EventRemoteTargetHandler.wait_for_all, one step per future awaited.     *)
(***************************************************************************)
WaitCall(t, h) ==
    /\ pc[t].at = "idle"
    /\ pc' = [pc EXCEPT ![t] = [at |-> "wait_loop", h |-> h, i |-> 1]]
    /\ last' = [last EXCEPT ![t] =
           Call("wait_for_all", h, "e1", FALSE, "running", "", futures[h], 0,
                <<>>)]
    /\ UNCHANGED <<targets, tasks, futures>>

\* FutureResult, with the exception of the work item swallowed
FutureResultSwallowed(task) == Returned("None")

\* future.result() on a completed future: returns, or raises its exception
FutureResult(task) ==
    IF task.st = "EXCEPTION" THEN Raised("TransportError") ELSE Returned("None")

\* WaitNext, the registry emptied when the exception leaves wait_for_all
WaitNextResetting(t) ==
    /\ pc[t].at = "wait_loop"
    /\ pc[t].i <= Len(futures[pc[t].h])
    /\ LET h == pc[t].h
           id == futures[h][pc[t].i]
           r == FutureResult(tasks[h][id])
       IN /\ Completed(tasks[h][id])
          /\ IF r.ok
             THEN /\ pc' = [pc EXCEPT ![t].i = @ + 1]
                  /\ UNCHANGED <<last, targets>>
             ELSE /\ pc' = [pc EXCEPT ![t] = Idle]
                  /\ targets' = <<>>
                  /\ last' = [last EXCEPT ![t].status = "raised",
                                          ![t].exc = r.exc,
                                          ![t].err = id]
    /\ UNCHANGED <<tasks, futures>>

\* the i-th turn of the loop: future.result() blocks until the work item has
\* completed; then the loop goes on, or the exception leaves wait_for_all
WaitNext(t) ==
    /\ pc[t].at = "wait_loop"
    /\ pc[t].i <= Len(futures[pc[t].h])
    /\ LET h == pc[t].h
           id == futures[h][pc[t].i]
           r == FutureResult(tasks[h][id])
       IN /\ Completed(tasks[h][id])
          /\ IF r.ok
             THEN /\ pc' = [pc EXCEPT ![t].i = @ + 1]
                  /\ UNCHANGED last
             ELSE /\ pc' = [pc EXCEPT ![t] = Idle]
                  /\ last' = [last EXCEPT ![t].status = "raised",
                                          ![t].exc = r.exc,
                                          ![t].err = id]
    /\ UNCHANGED <<targets, tasks, futures>>

\* the for loop ends, no future being left in self.futures; then
\* self.futures.clear(), and wait_for_all returns
WaitReturn(t) ==
    /\ pc[t].at = "wait_loop"
    /\ pc[t].i > Len(futures[pc[t].h])
    /\ futures' = [futures EXCEPT ![pc[t].h] = <<>>]
    /\ pc' = [pc EXCEPT ![t] = Idle]
    /\ last' = [last EXCEPT ![t].status = "returned"]
    /\ UNCHANGED <<targets, tasks>>

(***************************************************************************)
(* The executor of handler h: at most max_workers threads take the work    *)
(* items in the order of their submission and run dispatch.                *)
(***************************************************************************)
\* WorkerStart, with a thread started for every work item
WorkerStartUnbounded(h) ==
    /\ PendingIds(h) # {}
    /\ tasks' = [tasks EXCEPT ![h][Min(PendingIds(h))].st = "RUNNING"]
    /\ UNCHANGED <<targets, futures, pc, last>>

WorkerStart(h) ==
    /\ PendingIds(h) # {}
    /\ Cardinality(RunningIds(h)) < max_workers
    /\ tasks' = [tasks EXCEPT ![h][Min(PendingIds(h))].st = "RUNNING"]
    /\ UNCHANGED <<targets, futures, pc, last>>

\* dispatch returns when the transport call returns, and raises when it raises
WorkerFinish(h, id, transport_ok) ==
    /\ id \in RunningIds(h)
    /\ tasks' = [tasks EXCEPT ![h][id].st =
                     IF transport_ok THEN "RESULT" ELSE "EXCEPTION"]
    /\ UNCHANGED <<targets, futures, pc, last>>

\* WorkerStart and WorkerFinish in one step, for the specifications in which
\* only the completion of a work item matters: a worker takes the work item
\* (fewer than max_workers work items submitted before it are incomplete)
\* and runs dispatch to its end
WorkerRun(h, id, transport_ok) ==
    /\ id \in PendingIds(h)
    /\ Cardinality({j \in PendingIds(h) \cup RunningIds(h) : j < id}) < max_workers
    /\ tasks' = [tasks EXCEPT ![h][id].st =
                     IF transport_ok THEN "RESULT" ELSE "EXCEPTION"]
    /\ UNCHANGED <<targets, futures, pc, last>>

(***************************************************************************)
(* The program with one caller thread and two handlers.                    *)
(***************************************************************************)
\* the bounds of the model: the registry and the executors stay small
RegisterFits(raw) == ParseTarget(raw).ok => Len(targets) < MaxTargets
EmitFits(event, celery_installed, bound) ==
    TotalTasks(Handlers) + Len(EmitLoop(1, event, celery_installed, <<>>).subs)
        <= bound

Next ==
    \/ \E h \in Handlers, raw \in RawTargets :
           RegisterFits(raw) /\ Register(MainThread, h, raw) /\ UNCHANGED history
    \/ \E h \in Handlers : Clear(MainThread, h) /\ UNCHANGED history
    \/ \E h \in Handlers, event \in Events, celery_installed \in BOOLEAN :
           /\ EmitFits(event, celery_installed, MaxTasks)
           /\ Emit(MainThread, h, event, celery_installed)
           /\ UNCHANGED history
    \/ \E h \in Handlers : WaitCall(MainThread, h) /\ UNCHANGED history
    \/ WaitNext(MainThread) /\ UNCHANGED history
    \/ WaitReturn(MainThread) /\ UNCHANGED history
    \/ \E h \in Handlers, id \in 1..MaxTasks, ok \in BOOLEAN :
           WorkerRun(h, id, ok) /\ UNCHANGED history

Spec == Init /\ [][Next]_vars

(***************************************************************************)
(* The same program, with the history of the registry kept: who registered *)
(* each target, and which handlers were cleared and not registered on      *)
(* since.                                                                  *)
(***************************************************************************)
NextHistory ==
    \/ \E h \in Handlers, raw \in RawTargets :
           /\ RegisterFits(raw)
           /\ Register(MainThread, h, raw)
           /\ owners' = IF ParseTarget(raw).ok THEN Append(owners, h) ELSE owners
           /\ cleared' = cleared \ {h}
           /\ UNCHANGED <<work, sent>>
    \/ \E h \in Handlers :
           /\ Clear(MainThread, h)
           /\ owners' = <<>>
           /\ cleared' = cleared \cup {h}
           /\ UNCHANGED <<work, sent>>
    \/ \E h \in Handlers, event \in Events, celery_installed \in BOOLEAN :
           /\ EmitFits(event, celery_installed, MaxTasks)
           /\ Emit(MainThread, h, event, celery_installed)
           /\ UNCHANGED history
    \/ \E h \in Handlers : WaitCall(MainThread, h) /\ UNCHANGED history
    \/ WaitNext(MainThread) /\ UNCHANGED history
    \/ WaitReturn(MainThread) /\ UNCHANGED history
    \/ \E h \in Handlers, id \in 1..MaxTasks, ok \in BOOLEAN :
           WorkerRun(h, id, ok) /\ UNCHANGED history

SpecHistory == Init /\ [][NextHistory]_vars

(***************************************************************************)
(* One handler and its caller, with fair workers: a work item whose worker *)
(* can run is run in the end (the transport call returns or times out).    *)
(***************************************************************************)
PoolHandler == "H1"

NextFair ==
    \/ \E raw \in RawTargets :
           /\ RegisterFits(raw)
           /\ Register(MainThread, PoolHandler, raw)
           /\ UNCHANGED history
    \/ Clear(MainThread, PoolHandler) /\ UNCHANGED history
    \/ \E event \in Events, celery_installed \in BOOLEAN :
           /\ EmitFits(event, celery_installed, MaxTasks)
           /\ Emit(MainThread, PoolHandler, event, celery_installed)
           /\ UNCHANGED history
    \/ WaitCall(MainThread, PoolHandler) /\ UNCHANGED history
    \/ WaitNext(MainThread) /\ UNCHANGED history
    \/ WaitReturn(MainThread) /\ UNCHANGED history
    \/ \E id \in 1..MaxTasks, ok \in BOOLEAN :
           WorkerRun(PoolHandler, id, ok) /\ UNCHANGED history

FairSpec ==
    /\ Init /\ [][NextFair]_vars
    /\ \A id \in 1..MaxTasks :
           WF_vars(\E ok \in BOOLEAN :
                      WorkerRun(PoolHandler, id, ok) /\ UNCHANGED history)

(***************************************************************************)
(* One handler whose registry holds more matching targets than its         *)
(* executor has workers: max_workers unfiltered targets and one that       *)
(* filters on "e1".                                                        *)
(***************************************************************************)
PoolTargets ==
    [i \in 1..(max_workers + 1) |->
        IF i <= max_workers
        THEN ParseTarget(PyStr("http://a.test")).value
        ELSE ParseTarget(PyDict([type |-> PyStr("url"),
                                 address |-> PyStr("http://b.test"),
                                 events |-> PyList({"e1"})])).value]

InitPool ==
    /\ targets = PoolTargets
    /\ tasks = [h \in Handlers |-> <<>>]
    /\ futures = [h \in Handlers |-> <<>>]
    /\ pc = [t \in Threads |-> Idle]
    /\ last = [t \in Threads |-> NoCall]
    /\ owners = [i \in 1..(max_workers + 1) |-> PoolHandler]
    /\ cleared = {}
    /\ work = <<>>
    /\ sent = <<>>

NextPool ==
    \/ \E event \in Events :
           /\ EmitFits(event, TRUE, MaxPoolTasks)
           /\ Emit(MainThread, PoolHandler, event, TRUE)
           /\ UNCHANGED history
    \/ WorkerStart(PoolHandler) /\ UNCHANGED history
    \/ \E id \in 1..MaxPoolTasks, ok \in BOOLEAN :
           WorkerFinish(PoolHandler, id, ok) /\ UNCHANGED history

SpecPool == InitPool /\ [][NextPool]_vars

\* the same with fair workers and transport calls that return: a free worker
\* takes the next work item, and a running dispatch finishes
NextPoolFair ==
    \/ \E event \in Events :
           /\ EmitFits(event, TRUE, MaxPoolTasks)
           /\ Emit(MainThread, PoolHandler, event, TRUE)
           /\ UNCHANGED history
    \/ WorkerStart(PoolHandler) /\ UNCHANGED history
    \/ \E id \in 1..MaxPoolTasks :
           WorkerFinish(PoolHandler, id, TRUE) /\ UNCHANGED history

FairSpecPool ==
    /\ InitPool /\ [][NextPoolFair]_vars
    /\ WF_vars(WorkerStart(PoolHandler) /\ UNCHANGED history)
    /\ \A id \in 1..MaxPoolTasks :
           WF_vars(WorkerFinish(PoolHandler, id, TRUE) /\ UNCHANGED history)

(***************************************************************************)
(* EventRemoteURLDispatcher.dispatch and EventRemoteCeleryDispatcher       *)
(* .dispatch, with what the transports receive.                            *)
(***************************************************************************)
\* a member of an Enum class; mixin: the class also derives from str, so a
\* member equals its value
PyEnum(name, value, mixin) ==
    [py |-> "enum", name |-> name, v |-> value, mixin |-> mixin]

\* str(x)
Str(x) == IF x.py = "enum" THEN "Events." \o x.name ELSE x.v

\* event_value: str(event), replaced by event.value for a member of an Enum
EventValue(event) == IF event.py = "enum" THEN event.v ELSE Str(event)

\* what `event in target.events` compares with the strings of a filter: the
\* string a str (or a member of a str-derived Enum) equals; any other value
\* equals no string, and stands here as a name no filter holds
FilterKey(event) ==
    IF event.py = "str" \/ (event.py = "enum" /\ event.mixin) THEN event.v
    ELSE "<" \o Str(event) \o ">"

\* _build_request: the fields of the EventDTO, dumped
BuildRequest(event, args, kwargs) ==
    [event |-> EventValue(event), args |-> args, kwargs |-> kwargs]

\* URLDispatch, with the event's str() sent for every event
URLDispatchStr(call, outcome) ==
    [sent |-> [method |-> "POST",
               url |-> call.target.address,
               json |-> [event |-> Str(call.event), args |-> call.args,
                         kwargs |-> call.kwargs],
               headers |-> call.target.headers,
               timeout |-> 10],
     result |-> IF outcome.ok THEN Returned("None") ELSE Raised("TransportError")]

\* URLDispatch, with response.raise_for_status() after the POST
URLDispatchRaiseForStatus(call, outcome) ==
    [sent |-> [method |-> "POST",
               url |-> call.target.address,
               json |-> BuildRequest(call.event, call.args, call.kwargs),
               headers |-> call.target.headers,
               timeout |-> 10],
     result |-> IF outcome.ok /\ outcome.status < 400
                THEN Returned("None") ELSE Raised("TransportError")]

\* EventRemoteURLDispatcher.dispatch: requests.post raises when no response
\* comes (outcome.ok = FALSE); the status of a response is only logged
URLDispatch(call, outcome) ==
    [sent |-> [method |-> "POST",
               url |-> call.target.address,
               json |-> BuildRequest(call.event, call.args, call.kwargs),
               headers |-> call.target.headers,
               timeout |-> 10],
     result |-> IF outcome.ok THEN Returned("None") ELSE Raised("TransportError")]

\* CeleryDispatch, with the event left out of the positional arguments
CeleryDispatchNoEvent(call, outcome) ==
    [sent |-> [method |-> "send_task",
               name |-> call.target.function_name,
               args |-> call.args,
               kwargs |-> call.kwargs,
               queue |-> call.target.queue_name],
     result |-> IF outcome.ok THEN Returned("None") ELSE Raised("TransportError")]

\* EventRemoteCeleryDispatcher.dispatch
CeleryDispatch(call, outcome) ==
    [sent |-> [method |-> "send_task",
               name |-> call.target.function_name,
               args |-> <<EventValue(call.event)>> \o call.args,
               kwargs |-> call.kwargs,
               queue |-> call.target.queue_name],
     result |-> IF outcome.ok THEN Returned("None") ELSE Raised("TransportError")]

\* dispatcher.dispatch(event, *args, **kwargs), as the work item binds it
Dispatch(call, outcome) ==
    IF call.dispatcher = "EventRemoteURLDispatcher"
    THEN URLDispatch(call, outcome)
    ELSE CeleryDispatch(call, outcome)

\* what the transport does with a call: a response with a status, or none
\* (celery's send_task returns or raises, there is no status)
Outcomes ==
    { [ok |-> TRUE, status |-> 200], [ok |-> TRUE, status |-> 500],
      [ok |-> FALSE, status |-> 0] }

\* the calls of emit a caller makes: a string, a member of a str-derived
\* Enum, a member of a plain Enum, with and without arguments
EmittedCalls ==
    { [event |-> PyStr("e1"), args |-> <<>>, kwargs |-> {}],
      [event |-> PyEnum("E1", "e1", TRUE), args |-> <<"a1", "a2">>,
       kwargs |-> {<<"k", "v">>}],
      [event |-> PyEnum("E2", "e2", FALSE), args |-> <<"a1">>, kwargs |-> {}],
      [event |-> PyStr("e2"), args |-> <<>>, kwargs |-> {<<"k", "v">>}] }

\* the registry after three register calls: an HTTP descriptor with headers
\* and no filter, a task-queue descriptor with names that filters on "e1",
\* and one without names that filters on "e2"
DispatchTargets ==
    << ParseTarget(PyDict([type |-> PyStr("url"),
                           address |-> PyStr("http://b.test"),
                           headers |-> PyDict({<<"X-Token", "t">>})])).value,
       ParseTarget(PyDict([type |-> PyStr("celery"),
                           address |-> PyStr("amqp://named"),
                           queue_name |-> PyStr("q1"),
                           function_name |-> PyStr("f1"),
                           events |-> PyList({"e1"})])).value,
       ParseTarget(PyDict([type |-> PyStr("celery"),
                           address |-> PyStr("amqp://broker"),
                           events |-> PyList({"e2"})])).value >>

\* emit(event, *args, **kwargs) on PoolHandler, the bound calls kept
EmitCall(event, payload, celery_installed) ==
    /\ Emit(MainThread, PoolHandler, FilterKey(event), celery_installed)
    /\ work' = work \o
           [k \in 1..Len(last'[MainThread].subs) |->
               [dispatcher |-> last'[MainThread].subs[k].dispatcher,
                target |-> targets[last'[MainThread].subs[k].entry],
                event |-> event,
                args |-> payload.args,
                kwargs |-> payload.kwargs]]
    /\ sent' = sent \o [k \in 1..Len(last'[MainThread].subs) |-> <<>>]
    /\ UNCHANGED <<owners, cleared>>

\* a worker runs the work item id: the transport receives the call, and the
\* future gets the result of dispatch
WorkerDispatch(id, outcome) ==
    /\ id \in DOMAIN work
    /\ work[id].dispatcher = "EventRemoteCeleryDispatcher" => outcome.status # 500
    /\ LET d == Dispatch(work[id], outcome) IN
       /\ WorkerRun(PoolHandler, id, d.result.ok)
       /\ sent' = [sent EXCEPT ![id] =
                       Append(@, [call |-> d.sent, outcome |-> outcome])]
    /\ UNCHANGED <<owners, cleared, work>>

InitDispatch ==
    /\ targets = DispatchTargets
    /\ tasks = [h \in Handlers |-> <<>>]
    /\ futures = [h \in Handlers |-> <<>>]
    /\ pc = [t \in Threads |-> Idle]
    /\ last = [t \in Threads |-> NoCall]
    /\ owners = [i \in DOMAIN DispatchTargets |-> PoolHandler]
    /\ cleared = {}
    /\ work = <<>>
    /\ sent = <<>>

NextDispatch ==
    \/ \E c \in EmittedCalls, celery_installed \in BOOLEAN :
           /\ EmitFits(FilterKey(c.event), celery_installed, MaxTasks)
           /\ EmitCall(c.event, c, celery_installed)
    \/ \E id \in 1..MaxTasks, outcome \in Outcomes : WorkerDispatch(id, outcome)
    \/ WaitCall(MainThread, PoolHandler) /\ UNCHANGED history
    \/ WaitNext(MainThread) /\ UNCHANGED history
    \/ WaitReturn(MainThread) /\ UNCHANGED history

SpecDispatch == InitDispatch /\ [][NextDispatch]_vars

(***************************************************************************)
(* register called with an address string or with the descriptor that      *)
(* holds the HTTP kind and the address only.                               *)
(***************************************************************************)
Addresses == {"http://a.test", "http://b.test", ""}
URLDescriptor(s) == PyDict([type |-> PyStr("url"), address |-> PyStr(s)])

NextRegister ==
    \/ \E h \in Handlers, s \in Addresses :
           /\ RegisterFits(PyStr(s))
           /\ Register(MainThread, h, PyStr(s))
           /\ UNCHANGED history
    \/ \E h \in Handlers, s \in Addresses :
           /\ RegisterFits(URLDescriptor(s))
           /\ Register(MainThread, h, URLDescriptor(s))
           /\ UNCHANGED history
    \/ \E h \in Handlers : Clear(MainThread, h) /\ UNCHANGED history
    \/ \E h \in Handlers, event \in Events :
           /\ EmitFits(event, TRUE, MaxTasks)
           /\ Emit(MainThread, h, event, TRUE)
           /\ UNCHANGED history

SpecRegister == Init /\ [][NextRegister]_vars

(***************************************************************************)
(* Two threads on one handler: MainThread calls wait_for_all while         *)
(* OtherThread calls emit.  Each thread takes one step per turn of its     *)
(* loop, and self.futures.clear() is a step after the end of               *)
(* wait_for_all's loop.                                                    *)
(***************************************************************************)
OtherThread == "other"

\* emit is entered
EmitEnter(t, h, event) ==
    /\ pc[t].at = "idle"
    /\ pc' = [pc EXCEPT ![t] = [at |-> "emit_loop", h |-> h, i |-> 1]]
    /\ last' = [last EXCEPT ![t] =
           Call("emit", h, event, FALSE, "running", "", <<>>, Len(tasks[h]), <<>>)]
    /\ UNCHANGED <<targets, tasks, futures>>

\* one turn of emit's loop: the target is skipped, or its dispatcher is created
\* (the exception of create leaves emit), its dispatch submitted and the
\* future appended to self.futures
EmitNext(t, celery_installed) ==
    /\ pc[t].at = "emit_loop"
    /\ pc[t].i <= Len(targets)
    /\ LET h == pc[t].h
           i == pc[t].i
           dispatcher == Create(targets[i], celery_installed)
       IN IF ~Matches(targets[i], last[t].event)
          THEN /\ pc' = [pc EXCEPT ![t].i = i + 1]
               /\ UNCHANGED <<tasks, futures, last>>
          ELSE IF dispatcher.ok
          THEN /\ tasks' = [tasks EXCEPT ![h] = Append(@, [st |-> "PENDING"])]
               /\ futures' = [futures EXCEPT ![h] = Append(@, Len(tasks[h]) + 1)]
               /\ last' = [last EXCEPT ![t].subs =
                      Append(@, [dispatcher |-> dispatcher.value.class,
                                 event |-> last[t].event, entry |-> i])]
               /\ pc' = [pc EXCEPT ![t].i = i + 1]
          ELSE /\ pc' = [pc EXCEPT ![t] = Idle]
               /\ last' = [last EXCEPT ![t].status = "raised",
                                       ![t].exc = dispatcher.exc]
               /\ UNCHANGED <<tasks, futures>>
    /\ UNCHANGED targets

\* the loop of emit ends, and emit returns
EmitReturn(t) ==
    /\ pc[t].at = "emit_loop"
    /\ pc[t].i > Len(targets)
    /\ pc' = [pc EXCEPT ![t] = Idle]
    /\ last' = [last EXCEPT ![t].status = "returned"]
    /\ UNCHANGED <<targets, tasks, futures>>

\* the loop of wait_for_all ends: the iterator finds no further future
WaitExit(t) ==
    /\ pc[t].at = "wait_loop"
    /\ pc[t].i > Len(futures[pc[t].h])
    /\ pc' = [pc EXCEPT ![t].at = "wait_clear"]
    /\ UNCHANGED <<targets, tasks, futures, last>>

\* self.futures.clear(), and wait_for_all returns
WaitClear(t) ==
    /\ pc[t].at = "wait_clear"
    /\ futures' = [futures EXCEPT ![pc[t].h] = <<>>]
    /\ pc' = [pc EXCEPT ![t] = Idle]
    /\ last' = [last EXCEPT ![t].status = "returned"]
    /\ UNCHANGED <<targets, tasks>>

\* the registry after two register calls
ConcurrentTargets ==
    << ParseTarget(PyStr("http://a.test")).value,
       ParseTarget(PyDict([type |-> PyStr("url"),
                           address |-> PyStr("http://b.test"),
                           events |-> PyList({"e1"})])).value >>

InitConcurrent ==
    /\ targets = ConcurrentTargets
    /\ tasks = [h \in Handlers |-> <<>>]
    /\ futures = [h \in Handlers |-> <<>>]
    /\ pc = [t \in Threads |-> Idle]
    /\ last = [t \in Threads |-> NoCall]
    /\ owners = [i \in DOMAIN ConcurrentTargets |-> PoolHandler]
    /\ cleared = {}
    /\ work = <<>>
    /\ sent = <<>>

NextConcurrent ==
    \/ \E event \in Events :
           EmitEnter(OtherThread, PoolHandler, event) /\ UNCHANGED history
    \/ /\ TotalTasks(Handlers) < MaxTasks
       /\ EmitNext(OtherThread, TRUE)
       /\ UNCHANGED history
    \/ EmitReturn(OtherThread) /\ UNCHANGED history
    \/ WaitCall(MainThread, PoolHandler) /\ UNCHANGED history
    \/ WaitNext(MainThread) /\ UNCHANGED history
    \/ WaitExit(MainThread) /\ UNCHANGED history
    \/ WaitClear(MainThread) /\ UNCHANGED history
    \/ \E id \in 1..MaxTasks, ok \in BOOLEAN :
           WorkerRun(PoolHandler, id, ok) /\ UNCHANGED history

SpecConcurrent == InitConcurrent /\ [][NextConcurrent]_vars

(***************************************************************************)
(* The claims.  c is the record of the caller's last call.                 *)
(***************************************************************************)
TheCall == last[MainThread]
CallEnded == TheCall.status \in {"returned", "raised"}

\* the registry entries whose events filter is absent or contains the event,
\* in registry order, from entry i on
RECURSIVE MatchingEntries(_, _)
MatchingEntries(i, event) ==
    IF i > Len(targets) THEN <<>>
    ELSE IF targets[i].events = {} \/ \E s \in targets[i].events : event \in s
         THEN <<i>> \o MatchingEntries(i + 1, event)
         ELSE MatchingEntries(i + 1, event)

\* C1: emit submits exactly one dispatch for every registry entry whose filter
\* is absent or contains the event, and none for the other entries, whatever
\* the registry holds.
C1_EmitDispatchesEveryMatch ==
    TheCall.op = "emit" =>
        /\ [k \in 1..Len(TheCall.subs) |-> TheCall.subs[k].entry]
               = MatchingEntries(1, TheCall.event)
        /\ Len(tasks[TheCall.h]) = TheCall.n0 + Len(TheCall.subs)

\* C2: when wait_for_all hands control back, by return or by raising, every
\* handle that was retained when it was called has completed.
C2_WaitEndsAfterAllCompleted ==
    TheCall.op = "wait_for_all" /\ CallEnded =>
        \A id \in Range(TheCall.snap) : Completed(tasks[TheCall.h][id])

\* C3: emit never raises for a per-target dispatch problem.
C3_EmitNeverRaises ==
    TheCall.op = "emit" => TheCall.status = "returned"

\* C4: wait_for_all returns normally only if no handle retained at the call
\* failed, and what it raises is the error of the first failed handle in
\* submission order.
C4_WaitRaisesFirstError ==
    TheCall.op = "wait_for_all" =>
        LET h == TheCall.h
            snap == TheCall.snap
        IN /\ TheCall.status = "returned" =>
                  \A id \in Range(snap) : tasks[h][id].st = "RESULT"
           /\ TheCall.status = "raised" =>
                  \E k \in DOMAIN snap :
                      /\ snap[k] = TheCall.err
                      /\ tasks[h][snap[k]].st = "EXCEPTION"
                      /\ \A j \in 1..(k - 1) : tasks[h][snap[j]].st = "RESULT"

\* a wait_for_all that raised the error of the second handle, the first one
\* having succeeded
C4_Witness ==
    /\ TheCall.op = "wait_for_all"
    /\ TheCall.status = "raised"
    /\ Len(TheCall.snap) >= 2
    /\ TheCall.err = TheCall.snap[2]
    /\ tasks[TheCall.h][TheCall.snap[1]].st = "RESULT"

\* C5: after wait_for_all finished, by return or by raising, the handler
\* retains no handle.
C5_WaitLeavesNoHandle ==
    TheCall.op = "wait_for_all" /\ CallEnded => futures[TheCall.h] = <<>>

\* C6: the registry and the retained handles are owned by each handler: emit on
\* a handler submits dispatches only for targets registered on that handler,
\* clear on a handler removes only targets registered on it, and the handles
\* a handler retains change only in calls on that handler.
C6_InstanceOwned ==
    /\ [](TheCall.op = "emit" =>
              \A k \in DOMAIN TheCall.subs :
                  owners[TheCall.subs[k].entry] = TheCall.h)
    /\ [][/\ TheCall'.op = "clear" /\ targets' # targets =>
                 \A i \in DOMAIN targets : owners[i] = TheCall'.h
          /\ \A h \in Handlers : futures'[h] # futures[h] => TheCall'.h = h]_vars

\* C7: emit never blocks on transport completion or on pool capacity: while
\* no work item of the executor has completed, however many are outstanding,
\* an emit of any event can run and return.
C7_EmitNeverBlocks ==
    /\ pc[MainThread].at = "idle"
    /\ \A id \in DOMAIN tasks[PoolHandler] : ~Completed(tasks[PoolHandler][id])
    => \A event \in Events : ENABLED Emit(MainThread, PoolHandler, event, TRUE)

\* emit has returned having submitted more dispatches than the executor has
\* workers, and none of them has completed
C7_Witness ==
    /\ TheCall.op = "emit"
    /\ TheCall.status = "returned"
    /\ Len(TheCall.subs) > max_workers
    /\ \A k \in 1..Len(TheCall.subs) :
           ~Completed(tasks[TheCall.h][TheCall.n0 + k])

\* C8: register of malformed input raises inside the call and leaves the
\* registry as it was.
C8_MalformedRegisterRaises ==
    TheCall.op = "register" /\ TheCall.malformed =>
        /\ TheCall.status = "raised"
        /\ targets = TheCall.snap

\* a register of malformed input that raised, with targets in the registry
C8_Witness ==
    /\ TheCall.op = "register"
    /\ TheCall.malformed
    /\ TheCall.status = "raised"
    /\ Len(targets) > 0

\* C9: an emit on a handler that was cleared, with no register on that handler
\* since, submits no dispatch and retains no handle.
C9_EmitAfterClearSubmitsNothing ==
    TheCall.op = "emit" /\ TheCall.h \in cleared =>
        /\ TheCall.subs = <<>>
        /\ futures[TheCall.h] = <<>>

\* a step of clear on handler h
ClearStep(h) ==
    /\ TheCall'.op = "clear"
    /\ TheCall'.h = h
    /\ TheCall' # TheCall \/ futures' # futures \/ targets' # targets

\* C10: clear cancels nothing and only stops tracking: it changes no work
\* item and empties self.futures; a handle once dropped is never retained
\* again, and wait_for_all awaits and re-raises only handles retained when it
\* was called; every work item submitted runs to completion.
C10_ClearOnlyStopsTracking ==
    /\ [][\A h \in Handlers :
              ClearStep(h) => tasks' = tasks /\ futures'[h] = <<>>]_vars
    /\ [][\A h \in Handlers :
              \A id \in Range(futures'[h]) \ Range(futures[h]) :
                  id > Len(tasks[h])]_vars
    /\ [](TheCall.op = "wait_for_all" =>
              /\ TheCall.status = "running" => TheCall.snap = futures[TheCall.h]
              /\ TheCall.status = "raised" => TheCall.err \in Range(TheCall.snap))
    /\ \A h \in Handlers, id \in 1..MaxTasks :
           (id \in DOMAIN tasks[h])
               ~> (id \in DOMAIN tasks[h] /\ Completed(tasks[h][id]))

\* a wait_for_all called with no handle retained has returned while a work
\* item submitted before is still incomplete
C10_Witness ==
    /\ TheCall.op = "wait_for_all"
    /\ TheCall.status = "returned"
    /\ TheCall.snap = <<>>
    /\ \E id \in DOMAIN tasks[TheCall.h] : ~Completed(tasks[TheCall.h][id])

\* the registry entry of an HTTP target with address s, no events filter and
\* no header
PlainURLEntry(s) ==
    [class |-> "EventRemoteURLTarget", type |-> "url", address |-> s,
     headers |-> {}, events |-> {}]

\* C11: register of an address string s and register of the descriptor with
\* the HTTP kind and the address s only both return and both append the same
\* entry (address s, no events filter, no header), so the handler is in the same
\* state after either and every emit that follows submits the same dispatches.
C11_StringIsURLDescriptor ==
    [][\A h \in Handlers, s \in Addresses :
          /\ Register(MainThread, h, PyStr(s)) =>
                 /\ TheCall'.status = "returned"
                 /\ targets' = Append(targets, PlainURLEntry(s))
          /\ Register(MainThread, h, URLDescriptor(s)) =>
                 /\ TheCall'.status = "returned"
                 /\ targets' = Append(targets, PlainURLEntry(s))]_vars

\* an emit has submitted two dispatches for two entries of the same address,
\* registered by string or by descriptor
C11_Witness ==
    /\ TheCall.op = "emit"
    /\ Len(TheCall.subs) = 2
    /\ \E s \in Addresses : targets = <<PlainURLEntry(s), PlainURLEntry(s)>>

\* the canonical string form of an emitted event: the string itself, and the
\* value of a member of an enumeration
CanonicalEvent(event) == event.v

IsURLWork(id) == work[id].dispatcher = "EventRemoteURLDispatcher"
IsCeleryWork(id) == work[id].dispatcher = "EventRemoteCeleryDispatcher"

\* C12: an emit that returns submits one dispatch for every matching entry;
\* the dispatch of an HTTP target makes exactly one POST, none before it has
\* run, to the target's address with the target's headers and the body
\* {event: canonical event, args: the arguments in order, kwargs: the keyword
\* arguments}; after wait_for_all returned every handle it drained has made
\* its one call.
C12_URLDispatchPostsEnvelope ==
    /\ \A id \in DOMAIN work, k \in 1..MaxTasks :
           IsURLWork(id) /\ k \in DOMAIN sent[id] =>
               LET c == work[id]
                   r == sent[id][k].call
               IN /\ r.method = "POST"
                  /\ r.url = c.target.address
                  /\ r.headers = c.target.headers
                  /\ r.json = [event |-> CanonicalEvent(c.event),
                               args |-> c.args, kwargs |-> c.kwargs]
    /\ \A id \in DOMAIN work :
           IsURLWork(id) =>
               Len(sent[id]) = IF Completed(tasks[PoolHandler][id]) THEN 1 ELSE 0
    /\ TheCall.op = "emit" /\ TheCall.status = "returned" =>
           /\ [k \in 1..Len(TheCall.subs) |-> TheCall.subs[k].entry]
                  = MatchingEntries(1, TheCall.event)
           /\ \A k \in 1..Len(TheCall.subs) :
                  work[TheCall.n0 + k].target = targets[TheCall.subs[k].entry]
    /\ TheCall.op = "wait_for_all" /\ TheCall.status = "returned" =>
           \A id \in Range(TheCall.snap) : Len(sent[id]) = 1

\* wait_for_all has returned after the POST of a dispatch to a target with
\* headers, for an enumerated event emitted with arguments
C12_Witness ==
    /\ TheCall.op = "wait_for_all"
    /\ TheCall.status = "returned"
    /\ \E id \in Range(TheCall.snap) :
           /\ IsURLWork(id)
           /\ work[id].target.headers # {}
           /\ work[id].event.py = "enum"
           /\ work[id].args # <<>>
           /\ \E k \in DOMAIN sent[id] : sent[id][k].call.json.event = "e1"

\* the function identifier and the queue name a task-queue target was
\* registered with, or the defaults when the descriptor names none
ConfiguredNames(target) ==
    IF target.address = "amqp://named"
    THEN [function_name |-> "f1", queue_name |-> "q1"]
    ELSE [function_name |-> DefaultFunctionName, queue_name |-> DefaultQueueName]

\* C13: the dispatch of a task-queue target submits exactly one task, none
\* before it has run: its name is the configured function identifier (or the
\* default), its positional arguments are the canonical event followed by the
\* arguments in order, its keyword arguments are the keyword arguments, its
\* queue is the configured queue name (or the default).
C13_CeleryDispatchSendsTask ==
    /\ \A id \in DOMAIN work, k \in 1..MaxTasks :
           IsCeleryWork(id) /\ k \in DOMAIN sent[id] =>
               LET c == work[id]
                   r == sent[id][k].call
               IN /\ r.method = "send_task"
                  /\ r.name = ConfiguredNames(c.target).function_name
                  /\ r.args = <<CanonicalEvent(c.event)>> \o c.args
                  /\ r.kwargs = c.kwargs
                  /\ r.queue = ConfiguredNames(c.target).queue_name
    /\ \A id \in DOMAIN work :
           IsCeleryWork(id) =>
               Len(sent[id]) = IF Completed(tasks[PoolHandler][id]) THEN 1 ELSE 0

\* a task was sent for the target with names, for an enumerated event
\* emitted with two arguments
C13_Witness ==
    \E id \in DOMAIN work :
        /\ IsCeleryWork(id)
        /\ work[id].event.py = "enum"
        /\ \E k \in DOMAIN sent[id] :
               /\ sent[id][k].call.name = "f1"
               /\ Len(sent[id][k].call.args) = 3

\* C14: an HTTP dispatch that got a response, whatever its status, completes
\* its handle successfully, and one that got none fails it; wait_for_all
\* raises only the error of a dispatch whose transport call failed.
C14_ResponseCompletesHandle ==
    /\ \A id \in DOMAIN work, k \in 1..MaxTasks :
           IsURLWork(id) /\ k \in DOMAIN sent[id] =>
               tasks[PoolHandler][id].st
                   = IF sent[id][k].outcome.ok THEN "RESULT" ELSE "EXCEPTION"
    /\ TheCall.op = "wait_for_all" /\ TheCall.status = "raised" =>
           \E k \in DOMAIN sent[TheCall.err] : ~sent[TheCall.err][k].outcome.ok

\* wait_for_all has returned, having drained the handle of a POST that was
\* answered with status 500
C14_Witness ==
    /\ TheCall.op = "wait_for_all"
    /\ TheCall.status = "returned"
    /\ \E id \in Range(TheCall.snap) :
           /\ IsURLWork(id)
           /\ \E k \in DOMAIN sent[id] : sent[id][k].outcome.status = 500

\* the state of the work item id of PoolHandler, "NONE" before its submission
StateOf(ts, id) == IF id \in DOMAIN ts THEN ts[id].st ELSE "NONE"

\* C15: at most max_workers dispatches of one handler run at the same time;
\* a work item is never dropped (it only goes from pending to running to
\* completed); a pending one can start whenever fewer than max_workers run,
\* and it does start in the end while the running ones keep finishing.
C15_AtMostTenRunning ==
    /\ [](Cardinality(RunningIds(PoolHandler)) <= max_workers)
    /\ [](/\ PendingIds(PoolHandler) # {}
           /\ Cardinality(RunningIds(PoolHandler)) < max_workers
           => ENABLED WorkerStart(PoolHandler))
    /\ [][\A id \in 1..MaxPoolTasks :
              LET a == StateOf(tasks[PoolHandler], id)
                  b == StateOf(tasks'[PoolHandler], id)
              IN a # b => <<a, b>> \in { <<"NONE", "PENDING">>,
                                        <<"PENDING", "RUNNING">>,
                                        <<"RUNNING", "RESULT">>,
                                        <<"RUNNING", "EXCEPTION">> }]_vars
    /\ \A id \in 1..MaxPoolTasks :
           (StateOf(tasks[PoolHandler], id) = "PENDING")
               ~> (StateOf(tasks[PoolHandler], id) \in {"RUNNING", "RESULT", "EXCEPTION"})

\* max_workers dispatches are running and one more is queued
C15_Witness ==
    /\ Cardinality(RunningIds(PoolHandler)) = max_workers
    /\ PendingIds(PoolHandler) # {}

\* the handles of the work items n + 1 .. m, in the order of their submission
Handles(n, m) == [k \in 1..(m - n) |-> n + k]

C17_RegistryChangesOnlyByRegisterAndClear ==
    /\ [][targets' # targets =>
              \/ /\ TheCall'.op = "register"
                 /\ TheCall'.status = "returned"
                 /\ Len(targets') = Len(targets) + 1
                 /\ SubSeq(targets', 1, Len(targets)) = targets
              \/ /\ TheCall'.op = "clear"
                 /\ targets' = <<>>]_vars
    /\ [][(TheCall' # TheCall /\ TheCall'.op = "register"
               /\ TheCall'.status = "returned")
              => Len(targets') = Len(targets) + 1]_vars
    /\ [][(\E h \in Handlers : ClearStep(h)) => targets' = <<>>]_vars
    /\ [](TheCall.op = "emit" /\ TheCall.status = "returned" =>
              [k \in 1..Len(TheCall.subs) |-> TheCall.subs[k].entry]
                  = MatchingEntries(1, TheCall.event))

\* a wait_for_all has raised and the registry still holds its two targets
C17_Witness ==
    /\ TheCall.op = "wait_for_all"
    /\ TheCall.status = "raised"
    /\ Len(targets) = 2

\* C18: with emit on another thread, every handle that wait_for_all's final
\* self.futures.clear() removes from self.futures has completed, none being
\* discarded without having been awaited.
C18_WaitClearDropsOnlyCompleted ==
    [][pc[MainThread].at = "wait_clear" /\ pc'[MainThread].at = "idle" =>
          \A id \in Range(futures[PoolHandler]) :
              Completed(tasks[PoolHandler][id])]_vars

====
